---- MODULE Spec2Model ----
(***************************************************************************)
(* get_multisets_Cpp(n, d, N) of src/src/get_multisets_Cpp.cpp: successor- *)
(* based generation of the d-element multisets of {1..n} in lexicographic  *)
(* order, one call followed statement by statement.                        *)
(*                                                                         *)
(* Vectors and matrix rows are functions over 0..d-1 and the matrix is a   *)
(* function over 0..N-1, so every index is the index the source uses.      *)
(***************************************************************************)
EXTENDS Integers, Sequences, FiniteSets, TLC

\* ------------------------------------------------------------------ bounds
\* how far below zero the arguments n and d are drawn
BelowZero == 1
MaxN == 3
MaxD == 3
Extra == 2

RECURSIVE Binom(_, _)
Binom(a, b) ==
  IF b = 0 THEN 1
  ELSE IF a <= 0 THEN 0
  ELSE Binom(a - 1, b - 1) + Binom(a - 1, b)

\* the number of d-element multisets of {1..n}: choose(n + d - 1, d)
TrueCount(nn, dd) == Binom(nn + dd - 1, dd)

MaxCount == TrueCount(MaxN, MaxD) + Extra

\* n, d, N            the arguments (line 17)
\* pc                 the statement the call is at: "entry" (line 18),
\*                    "while" (26), "write" (27), "for" (30), "fill" (33),
\*                    "done" (returned, 41), "error" (thrown, 19)
\* allocated          whether the locals of lines 22-24 are constructed
\* result_matrix      line 22, current_multiset line 23, row_index line 24
\* i                  the scan position of the for loop (line 30)
\* writes             the row indices assigned on line 27, in order
VARIABLES n, d, N, pc, allocated, result_matrix, current_multiset,
          row_index, i, writes

vars == <<n, d, N, pc, allocated, result_matrix, current_multiset,
          row_index, i, writes>>

\* ------------------------------------------------------- the code's pieces

\* the check with n < 0 for n <= 0: lets n = 0 through
InvalidArgument_StrictN(nn, dd) == nn < 0 \/ dd < 0

\* line 18: if (n <= 0 || d < 0)
InvalidArgument(nn, dd) == nn <= 0 \/ dd < 0

\* line 22: arma::mat result_matrix(N, d), zero-filled
NewMatrix(rows, cols) == [r \in 0..(rows - 1) |-> [c \in 0..(cols - 1) |-> 0]]

\* the vector filled with zeros instead of ones
Ones_Zeros(cols) == [c \in 0..(cols - 1) |-> 0]

\* line 23: arma::rowvec current_multiset(d, arma::fill::ones)
Ones(cols) == [c \in 0..(cols - 1) |-> 1]

\* the loop stopping one row early
LoopCond_OneShort(r, rows) == r + 1 < rows

\* line 26: while (row_index < N)
LoopCond(r, rows) == r < rows

\* the copy running one row too far back: it also overwrites row r - 1
SetRow_Overrun(mat, r, t) ==
  [k \in DOMAIN mat |-> IF k = r \/ k = r - 1 THEN t ELSE mat[k]]

\* line 27: result_matrix.row(row_index) = current_multiset (a copy)
SetRow(mat, r, t) == [mat EXCEPT ![r] = t]

\* the comparison with <= for <: a position at n is incremented again
CanIncrement_AtMost(v, nn) == v <= nn

\* line 31: if (current_multiset[i] < n)
CanIncrement(v, nn) == v < nn

\* line 32: current_multiset[i]++
Increment(t, k) == [t EXCEPT ![k] = @ + 1]

\* the tail reset to 1, as for tuples that need not be sorted
FillTail_ResetToOne(t, k, cols) ==
  [c \in DOMAIN t |-> IF c >= k + 1 /\ c <= cols - 1 THEN 1 ELSE t[c]]

\* the tail left as it was
FillTail_Skipped(t, k, cols) == t

\* line 34: current_multiset.subvec(i + 1, d - 1).fill(current_multiset[i])
FillTail(t, k, cols) ==
  [c \in DOMAIN t |-> IF c >= k + 1 /\ c <= cols - 1 THEN t[k] ELSE t[c]]

\* ------------------------------------------------------------------- Init
Init ==
  /\ n \in (0 - BelowZero)..MaxN
  /\ d \in (0 - BelowZero)..MaxD
  /\ N \in 0..MaxCount
  /\ pc = "entry"
  /\ allocated = FALSE
  /\ result_matrix = <<>>
  /\ current_multiset = <<>>
  /\ row_index = 0
  /\ i = 0
  /\ writes = <<>>

\* ---------------------------------------------------------------- actions

\* lines 18-20: the argument check throws
Throw ==
  /\ pc = "entry"
  /\ InvalidArgument(n, d)
  /\ pc' = "error"
  /\ UNCHANGED <<n, d, N, allocated, result_matrix, current_multiset,
                 row_index, i, writes>>

\* lines 22-24: the locals are constructed
Construct ==
  /\ pc = "entry"
  /\ ~InvalidArgument(n, d)
  /\ result_matrix' = NewMatrix(N, d)
  /\ current_multiset' = Ones(d)
  /\ row_index' = 0
  /\ allocated' = TRUE
  /\ pc' = "while"
  /\ UNCHANGED <<n, d, N, i, writes>>

\* line 26: the loop condition holds
WhileEnter ==
  /\ pc = "while"
  /\ LoopCond(row_index, N)
  /\ pc' = "write"
  /\ UNCHANGED <<n, d, N, allocated, result_matrix, current_multiset,
                 row_index, i, writes>>

\* lines 26, 41: the loop condition fails, the matrix is returned
Return ==
  /\ pc = "while"
  /\ ~LoopCond(row_index, N)
  /\ pc' = "done"
  /\ UNCHANGED <<n, d, N, allocated, result_matrix, current_multiset,
                 row_index, i, writes>>

\* lines 27-30: the row is written, the index advances, the scan starts
WriteRow ==
  /\ pc = "write"
  /\ result_matrix' = SetRow(result_matrix, row_index, current_multiset)
  /\ writes' = Append(writes, row_index)
  /\ row_index' = row_index + 1
  /\ i' = d - 1
  /\ pc' = "for"
  /\ UNCHANGED <<n, d, N, allocated, current_multiset>>

\* line 30: i >= 0 fails, the scan found no position
ForExit ==
  /\ pc = "for"
  /\ ~(i >= 0)
  /\ pc' = "while"
  /\ UNCHANGED <<n, d, N, allocated, result_matrix, current_multiset,
                 row_index, i, writes>>

\* lines 30-31: position i is at n already, --i
ForSkip ==
  /\ pc = "for"
  /\ i >= 0
  /\ ~CanIncrement(current_multiset[i], n)
  /\ i' = i - 1
  /\ UNCHANGED <<n, d, N, pc, allocated, result_matrix, current_multiset,
                 row_index, writes>>

\* lines 31-32: position i is below n and is incremented
ForIncrement ==
  /\ pc = "for"
  /\ i >= 0
  /\ CanIncrement(current_multiset[i], n)
  /\ current_multiset' = Increment(current_multiset, i)
  /\ pc' = "fill"
  /\ UNCHANGED <<n, d, N, allocated, result_matrix, row_index, i, writes>>

\* lines 33-36: the positions right of i are filled, break
ForFill ==
  /\ pc = "fill"
  /\ current_multiset' = IF i < d - 1
                           THEN FillTail(current_multiset, i, d)
                           ELSE current_multiset
  /\ pc' = "while"
  /\ UNCHANGED <<n, d, N, allocated, result_matrix, row_index, i, writes>>

Next ==
  \/ Throw
  \/ Construct
  \/ WhileEnter
  \/ Return
  \/ WriteRow
  \/ ForExit
  \/ ForSkip
  \/ ForIncrement
  \/ ForFill

Spec == Init /\ [][Next]_vars

\* the call is one synchronous thread: it always takes its next step
FairSpec == Spec /\ WF_vars(Next)

\* ------------------------------------------------- vocabulary of the claims

Valid == n >= 1 /\ d >= 0

NonDecreasing(t) == \A j, k \in DOMAIN t : j < k => t[j] <= t[k]

InRange(t, nn) == \A k \in DOMAIN t : t[k] >= 1 /\ t[k] <= nn

\* the d-element multisets of {1..n} as sorted tuples
Multisets(nn, dd) == {t \in [0..(dd - 1) -> 1..nn] : NonDecreasing(t)}

LexLess(a, b) ==
  \E k \in DOMAIN a :
    /\ a[k] < b[k]
    /\ \A j \in DOMAIN a : j < k => a[j] = b[j]

AllOf(v, dd) == [c \in 0..(dd - 1) |-> v]

\* a tuple written as a sequence, re-indexed from 0
Row(sq) == [c \in 0..(Len(sq) - 1) |-> sq[c + 1]]

\* the number of multisets lexicographically below t
Rank(t, nn, dd) == Cardinality({u \in Multisets(nn, dd) : LexLess(u, t)})

\* the full lexicographic sequence, indexed from 0
FullSequence(nn, dd) ==
  [k \in 0..(Cardinality(Multisets(nn, dd)) - 1) |->
     CHOOSE t \in Multisets(nn, dd) : Rank(t, nn, dd) = k]

\* C1: with N = choose(n+d-1, d) the returned rows, first to last, are the
\* lexicographically sorted list of all non-decreasing length-d tuples over
\* {1..n}: every such tuple is in exactly one row, no other tuple is in a
\* row, and the rows ascend.
C1_FullEnumeration ==
  (pc = "done" /\ Valid /\ N = TrueCount(n, d)) =>
    /\ DOMAIN result_matrix = 0..(N - 1)
    /\ \A t \in Multisets(n, d) :
         Cardinality({r \in DOMAIN result_matrix : result_matrix[r] = t}) = 1
    /\ \A r \in DOMAIN result_matrix : result_matrix[r] \in Multisets(n, d)
    /\ \A r, s \in DOMAIN result_matrix :
         r < s => LexLess(result_matrix[r], result_matrix[s])

C1_Witness ==
  /\ pc = "done"
  /\ n = 3 /\ d = 2 /\ N = 6
  /\ result_matrix[0] = Row(<<1, 1>>)
  /\ result_matrix[3] = Row(<<2, 2>>)
  /\ result_matrix[5] = Row(<<3, 3>>)

\* C2: n <= 0 or d < 0 ends in the error whatever N is, and before any
\* generation work: nothing allocated, no row written, the loop not entered;
\* a call with n >= 1 and d >= 0 never ends in the error.
C2_InvalidArgument ==
  /\ (~Valid /\ pc # "entry") =>
       /\ pc = "error"
       /\ ~allocated
       /\ result_matrix = <<>>
       /\ writes = <<>>
       /\ row_index = 0
  /\ Valid => pc # "error"

C2_Witness == pc = "error" /\ n = 0 /\ d = 2 /\ N = 3

C2_WitnessNegD == pc = "error" /\ n = 2 /\ d = -1

\* C3: with N below choose(n+d-1, d) the returned rows are the first N rows
\* of the full lexicographic sequence, in the same order.
C3_Prefix ==
  (pc = "done" /\ Valid /\ N < TrueCount(n, d)) =>
    /\ DOMAIN result_matrix = 0..(N - 1)
    /\ \A r \in 0..(N - 1) : result_matrix[r] = FullSequence(n, d)[r]

C3_Witness ==
  /\ pc = "done"
  /\ n = 3 /\ d = 2 /\ N = 3
  /\ result_matrix = [r \in 0..2 |-> [c \in 0..1 |-> IF c = 0 THEN 1 ELSE r + 1]]

\* C4: with N <= choose(n+d-1, d) the returned rows are strictly increasing
\* in lexicographic order, so no two rows are equal.
C4_StrictlyIncreasing ==
  (pc = "done" /\ Valid /\ N <= TrueCount(n, d)) =>
    \A j, k \in DOMAIN result_matrix :
      j < k => /\ LexLess(result_matrix[j], result_matrix[k])
               /\ result_matrix[j] # result_matrix[k]

C4_Witness ==
  /\ pc = "done"
  /\ n = 2 /\ d = 3 /\ N = 4
  /\ LexLess(result_matrix[2], result_matrix[3])

\* C5: for every N, the current tuple and every written row satisfy
\* 1 <= t[0] <= ... <= t[d-1] <= n in every state of the generation.
C5_RowsSortedInRange ==
  (Valid /\ allocated) =>
    /\ NonDecreasing(current_multiset) /\ InRange(current_multiset, n)
    /\ DOMAIN current_multiset = 0..(d - 1)
    /\ \A r \in DOMAIN result_matrix :
         r < row_index =>
           /\ NonDecreasing(result_matrix[r]) /\ InRange(result_matrix[r], n)
           /\ DOMAIN result_matrix[r] = 0..(d - 1)
    /\ pc = "done" => row_index = N

\* the state between the increment and the fill, with more rows asked for
\* than there are multisets
C5_Witness ==
  /\ pc = "fill"
  /\ n = 3 /\ d = 3 /\ N > TrueCount(n, d)
  /\ i = 0
  /\ current_multiset = Row(<<2, 3, 3>>)

\* C6: with N >= 1 the first row is d ones; with N = choose(n+d-1, d) the
\* last row is d n's and no earlier row is.
C6_FirstAndLast ==
  (pc = "done" /\ Valid /\ N >= 1) =>
    /\ result_matrix[0] = AllOf(1, d)
    /\ N = TrueCount(n, d) =>
         /\ result_matrix[N - 1] = AllOf(n, d)
         /\ \A r \in 0..(N - 2) : result_matrix[r] # AllOf(n, d)

C6_Witness ==
  /\ pc = "done"
  /\ n = 3 /\ d = 3 /\ N = 10
  /\ result_matrix[0] = Row(<<1, 1, 1>>)
  /\ result_matrix[9] = Row(<<3, 3, 3>>)

\* C7: for every N >= 0 the loop ends after exactly N iterations and the
\* returned table has N rows and d columns; with N = 0 the loop body is
\* never entered and the table has no row.
C7_ExactlyCountRows ==
  /\ [](Valid => <>(pc = "done"))
  /\ []((Valid /\ pc = "done") =>
          /\ row_index = N
          /\ Len(writes) = N
          /\ DOMAIN result_matrix = 0..(N - 1)
          /\ \A r \in DOMAIN result_matrix :
               DOMAIN result_matrix[r] = 0..(d - 1))
  /\ []((Valid /\ N = 0) =>
          /\ pc \in {"entry", "while", "done"}
          /\ writes = <<>>
          /\ allocated => result_matrix = <<>>)

C7_Witness ==
  /\ pc = "done"
  /\ n = 2 /\ d = 3 /\ N = 6
  /\ row_index = 6
  /\ Len(writes) = 6

C7_WitnessZero == pc = "done" /\ n = 2 /\ d = 2 /\ N = 0

\* C8: one run of the successor step takes a non-decreasing tuple t that is
\* not all n's to its immediate lexicographic successor among the
\* non-decreasing tuples: the rightmost position k below n is incremented,
\* the positions right of k take the new value, the positions left of k keep
\* theirs; the all-n tuple (and the empty tuple) is left as it is.  At the
\* loop test, t is the row just written and the current tuple is the result.
C8_ImmediateSuccessor ==
  (Valid /\ pc = "while" /\ row_index >= 1) =>
    LET t == result_matrix[row_index - 1]
        s == current_multiset
    IN  IF t = AllOf(n, d)
          THEN s = t
          ELSE LET k == CHOOSE k \in DOMAIN t :
                          /\ t[k] < n
                          /\ \A j \in DOMAIN t : j > k => ~(t[j] < n)
               IN  /\ s[k] = t[k] + 1
                   /\ \A j \in DOMAIN t : j > k => s[j] = s[k]
                   /\ \A j \in DOMAIN t : j < k => s[j] = t[j]
                   /\ s \in Multisets(n, d)
                   /\ LexLess(t, s)
                   /\ ~\E u \in Multisets(n, d) : LexLess(t, u) /\ LexLess(u, s)

C8_Witness ==
  /\ pc = "while"
  /\ n = 3 /\ d = 3
  /\ row_index >= 1
  /\ result_matrix[row_index - 1] = Row(<<1, 3, 3>>)
  /\ current_multiset = Row(<<2, 2, 2>>)

C8_WitnessTerminal ==
  /\ pc = "while"
  /\ n = 2 /\ d = 2
  /\ row_index = 4
  /\ result_matrix[3] = Row(<<2, 2>>)
  /\ current_multiset = Row(<<2, 2>>)

\* C9: with N above T = choose(n+d-1, d) the call does not fail; rows
\* 0..T-1 are the full lexicographic sequence and rows T..N-1 are d n's.
C9_OversizedCount ==
  (Valid /\ N > TrueCount(n, d)) =>
    /\ pc # "error"
    /\ pc = "done" =>
         /\ DOMAIN result_matrix = 0..(N - 1)
         /\ \A r \in 0..(TrueCount(n, d) - 1) :
              result_matrix[r] = FullSequence(n, d)[r]
         /\ \A r \in TrueCount(n, d)..(N - 1) :
              result_matrix[r] = AllOf(n, d)

C9_Witness ==
  /\ pc = "done"
  /\ n = 2 /\ d = 2 /\ N = 5
  /\ result_matrix[2] = Row(<<2, 2>>)
  /\ result_matrix[3] = Row(<<2, 2>>)
  /\ result_matrix[4] = Row(<<2, 2>>)

\* C10: the rows are written in the order 0, 1, ..., N-1, each once; the
\* step that writes row k leaves rows 0..k-1 as they were, and a step that
\* changes the current tuple changes no row.
C10_RowsWrittenOnceInOrder ==
  [][/\ \A r \in DOMAIN result_matrix :
          r < row_index =>
            r \in DOMAIN result_matrix' /\ result_matrix'[r] = result_matrix[r]
     /\ pc = "write" =>
          /\ result_matrix'[row_index] = current_multiset
          /\ writes' = Append(writes, row_index)
          /\ \A r \in DOMAIN result_matrix :
               r # row_index => result_matrix'[r] = result_matrix[r]
     /\ (allocated /\ pc # "write") =>
          result_matrix' = result_matrix /\ writes' = writes
     /\ (allocated /\ current_multiset' # current_multiset) =>
          result_matrix' = result_matrix
     /\ writes' = [k \in 1..row_index' |-> k - 1]
     /\ (Valid /\ pc' = "done") => writes' = [k \in 1..N |-> k - 1]
    ]_vars

\* the current tuple has moved on from the row it was copied into
C10_Witness ==
  /\ pc = "while"
  /\ n = 3 /\ d = 2
  /\ writes = <<0, 1, 2>>
  /\ result_matrix[2] = Row(<<1, 3>>)
  /\ current_multiset = Row(<<2, 2>>)

====
